---- MODULE Spec2Model ----
(***************************************************************************)
(* The calculator of frontend/app/screens/HomeScreen.tsx.                  *)
(*                                                                         *)
(* The component keeps four pieces of React state (displayValue,           *)
(* previousValue, operator, isNewEntry).  Every press of a keypad button   *)
(* runs handleButtonPress, which dispatches to one handler.  A handler     *)
(* reads some values from the closure of the render that created it and    *)
(* some from the state React passes to a functional updater; it writes     *)
(* with the setters, and React renders the component again before the      *)
(* next press is delivered.                                                *)
(*                                                                         *)
(* Strings are sequences of one-character strings.  A JavaScript number is *)
(* a record: NaN, an infinity, or the decimal s * m * 10^e that the double *)
(* prints as (m not divisible by 10).  IEEE -0 and +0 are one value: both  *)
(* print as "0" and both satisfy b === 0, and no handler can tell them     *)
(* apart.                                                                  *)
(***************************************************************************)
EXTENDS Integers, Sequences, FiniteSets, TLC

VARIABLES displayValue, previousValue, operator, isNewEntry, rendered, pressed, script

hooks == [displayValue |-> displayValue, previousValue |-> previousValue,
          operator |-> operator, isNewEntry |-> isNewEntry]

vars == <<displayValue, previousValue, operator, isNewEntry, rendered, pressed, script>>

(***************************************************************************)
(* Bounds of the model.                                                    *)
(***************************************************************************)
\* the digit buttons explored freely are 0..MaxDigit
MaxDigit == 2
\* a free Digit or Dot press appends only while the display is shorter than this
MaxLen == 2
\* arithmetic is carried out on mantissas m <= MaxMant
MaxMant == 9
\* results of freely explored arithmetic have decimal exponent e <= MaxPow
MaxPow == 0

(***************************************************************************)
(* Characters and strings.                                                 *)
(***************************************************************************)
DigitChars == <<"0", "1", "2", "3", "4", "5", "6", "7", "8", "9">>

IsDigit(c) == \E i \in 1..10 : DigitChars[i] = c

DigitVal(c) == (CHOOSE i \in 1..10 : DigitChars[i] = c) - 1

Error == <<"E", "r", "r", "o", "r">>

Infinity == <<"I", "n", "f", "i", "n", "i", "t", "y">>

Zeros(n) == [i \in 1..n |-> "0"]

\* String.prototype.includes for a one-character needle
includes(str, c) == \E i \in 1..Len(str) : str[i] = c

\* String.prototype.startsWith for a one-character prefix
startsWith(str, c) == Len(str) >= 1 /\ str[1] = c

\* String.prototype.slice(1)
slice1(str) == SubSeq(str, 2, Len(str))

(***************************************************************************)
(* Numbers.                                                                *)
(***************************************************************************)
Null == [k |-> "null", s |-> 1, m |-> 0, e |-> 0]

NaN == [k |-> "nan", s |-> 1, m |-> 0, e |-> 0]

Inf(sgn) == [k |-> "inf", s |-> sgn, m |-> 0, e |-> 0]

Zero == [k |-> "fin", s |-> 1, m |-> 0, e |-> 0]

\* a double that is not one of the decimals the model represents
Beyond == [k |-> "beyond", s |-> 1, m |-> 0, e |-> 0]

IsNaN(v) == v.k = "nan"

IsZero(v) == v.k = "fin" /\ v.m = 0

RECURSIVE Pow10(_)
Pow10(n) == IF n <= 0 THEN 1 ELSE 10 * Pow10(n - 1)

RECURSIVE Pow5(_)
Pow5(n) == IF n <= 0 THEN 1 ELSE 5 * Pow5(n - 1)

RECURSIVE NumDigits(_)
NumDigits(n) == IF n < 10 THEN 1 ELSE 1 + NumDigits(n \div 10)

RECURSIVE Strip(_, _)
Strip(m, e) == IF m # 0 /\ m % 10 = 0 THEN Strip(m \div 10, e + 1) ELSE <<m, e>>

\* The double nearest to sgn * m * 10^e (m < 10^9).  The largest double is
\* 1.7976931348623157e308 and every decimal from 1.797693135e308 on rounds
\* to Infinity; decimals below 1e-324 round to 0; the subnormal doubles in
\* between are not decimals of the model.
Fin(sgn, m, e) ==
    IF m = 0 THEN Zero
    ELSE LET p == Strip(m, e)
             k == NumDigits(p[1])
             n == p[2] + k
         IN  IF n > 309 \/ (n = 309 /\ k <= 9 /\ p[1] * Pow10(9 - k) >= 179769314)
             THEN Inf(sgn)
             ELSE IF n <= -324 THEN Zero
             ELSE IF n <= -307 \/ (n = 309 /\ k > 9) THEN Beyond
             ELSE [k |-> "fin", s |-> sgn, m |-> p[1], e |-> p[2]]

Neg(v) == IF v.k \in {"fin", "inf"} /\ ~IsZero(v) THEN [v EXCEPT !.s = -v.s] ELSE v

Hundred == Fin(1, 100, 0)

(***************************************************************************)
(* parseFloat: the longest prefix of the string that is a decimal literal  *)
(* ([+-] then Infinity, or digits [. digits] [e [+-] digits]); NaN when    *)
(* there is none.                                                          *)
(***************************************************************************)
RECURSIVE DigitRun(_, _)
\* length of the run of digits of str that starts at position i
DigitRun(str, i) ==
    IF i <= Len(str) /\ IsDigit(str[i]) THEN 1 + DigitRun(str, i + 1) ELSE 0

RECURSIVE NatOf(_, _, _)
\* the number written by the n digits of str that start at position i
NatOf(str, i, n) ==
    IF n = 0 THEN 0 ELSE 10 * NatOf(str, i, n - 1) + DigitVal(str[i + n - 1])

parseFloat(str) ==
    LET signed == Len(str) >= 1 /\ str[1] \in {"-", "+"}
        sgn == IF Len(str) >= 1 /\ str[1] = "-" THEN -1 ELSE 1
        b == IF signed THEN 2 ELSE 1
        ni == DigitRun(str, b)
        hasDot == b + ni <= Len(str) /\ str[b + ni] = "."
        nf == IF hasDot THEN DigitRun(str, b + ni + 1) ELSE 0
        x == b + ni + (IF hasDot THEN 1 + nf ELSE 0)
        hasE == x <= Len(str) /\ str[x] \in {"e", "E"}
        eSigned == hasE /\ x + 1 <= Len(str) /\ str[x + 1] \in {"-", "+"}
        eb == x + 1 + (IF eSigned THEN 1 ELSE 0)
        ne == IF hasE THEN DigitRun(str, eb) ELSE 0
        ex == IF ne = 0 THEN 0
              ELSE (IF eSigned /\ str[x + 1] = "-" THEN -1 ELSE 1) * NatOf(str, eb, ne)
        mant == NatOf(str, b, ni) * Pow10(nf) + NatOf(str, b + ni + 1, nf)
    IN  IF Len(str) >= b + 7 /\ SubSeq(str, b, b + 7) = Infinity THEN Inf(sgn)
        ELSE IF ni + nf = 0 THEN NaN
        ELSE IF ni + nf > 9 \/ ne > 4 THEN Beyond
        ELSE Fin(sgn, mant, ex - nf)

(***************************************************************************)
(* Number.prototype.toString: the shortest decimal that reads back as the  *)
(* same double, laid out as ECMAScript's Number::toString does: plain      *)
(* digits up to 21 integer digits, "0.000ddd" down to 1e-6, exponent form  *)
(* beyond.                                                                 *)
(***************************************************************************)
RECURSIVE DigitsOf(_)
DigitsOf(n) ==
    IF n < 10 THEN <<DigitChars[n + 1]>>
    ELSE Append(DigitsOf(n \div 10), DigitChars[(n % 10) + 1])

toString(v) ==
    IF v.k = "nan" THEN <<"N", "a", "N">>
    ELSE IF v.k = "inf" THEN (IF v.s < 0 THEN <<"-">> ELSE <<>>) \o Infinity
    ELSE IF v.m = 0 THEN <<"0">>
    ELSE LET ds == DigitsOf(v.m)
             k == Len(ds)
             n == v.e + k
             x == n - 1
             es == <<"e", IF x >= 0 THEN "+" ELSE "-">> \o DigitsOf(IF x >= 0 THEN x ELSE -x)
             body == IF k <= n /\ n <= 21 THEN ds \o Zeros(n - k)
                     ELSE IF 0 < n /\ n <= 21
                          THEN SubSeq(ds, 1, n) \o <<".">> \o SubSeq(ds, n + 1, k)
                     ELSE IF -6 < n /\ n <= 0 THEN <<"0", ".">> \o Zeros(-n) \o ds
                     ELSE IF k = 1 THEN ds \o es
                     ELSE <<ds[1], ".">> \o Tail(ds) \o es
         IN  (IF v.s < 0 THEN <<"-">> ELSE <<>>) \o body

(***************************************************************************)
(* Double arithmetic.  On NaN and the infinities the IEEE rules; on finite *)
(* numbers the exact decimal result, rounded to the double range by Fin.   *)
(* A result that is no decimal of the model (mantissas beyond MaxMant, a   *)
(* quotient that does not terminate) is Beyond.                            *)
(***************************************************************************)
Operable(v) == v.k \in {"nan", "inf"} \/ (v.k = "fin" /\ v.m <= MaxMant)

Add(a, b) ==
    IF ~(Operable(a) /\ Operable(b)) THEN Beyond
    ELSE IF IsNaN(a) \/ IsNaN(b) THEN NaN
    ELSE IF a.k = "inf" THEN (IF b.k = "inf" /\ b.s # a.s THEN NaN ELSE a)
    ELSE IF b.k = "inf" THEN b
    ELSE IF IsZero(a) THEN b
    ELSE IF IsZero(b) THEN a
    ELSE LET lo == IF a.e <= b.e THEN a.e ELSE b.e
             da == a.e - lo
             db == b.e - lo
             sum == a.s * a.m * Pow10(da) + b.s * b.m * Pow10(db)
         IN  IF da > 6 \/ db > 6 THEN Beyond
             ELSE Fin(IF sum < 0 THEN -1 ELSE 1, IF sum < 0 THEN -sum ELSE sum, lo)

Mul(a, b) ==
    IF ~(Operable(a) /\ Operable(b)) THEN Beyond
    ELSE IF IsNaN(a) \/ IsNaN(b) THEN NaN
    ELSE IF a.k = "inf" \/ b.k = "inf"
         THEN (IF IsZero(a) \/ IsZero(b) THEN NaN ELSE Inf(a.s * b.s))
    ELSE Fin(a.s * b.s, a.m * b.m, a.e + b.e)

Div(a, b) ==
    IF ~(Operable(a) /\ Operable(b)) THEN Beyond
    ELSE IF IsNaN(a) \/ IsNaN(b) THEN NaN
    ELSE IF a.k = "inf" THEN (IF b.k = "inf" THEN NaN ELSE Inf(a.s * b.s))
    ELSE IF IsZero(b) THEN (IF IsZero(a) THEN NaN ELSE Inf(a.s))
    ELSE IF b.k = "inf" \/ IsZero(a) THEN Zero
    ELSE LET J == {j \in 0..4 : (a.m * Pow10(j)) % b.m = 0}
             j == CHOOSE i \in J : \A i2 \in J : i <= i2
         IN  IF J = {} THEN Beyond
             ELSE Fin(a.s * b.s, (a.m * Pow10(j)) \div b.m, a.e - b.e - j)

(***************************************************************************)
(* The handlers.  h is the state React hands to a functional updater (the  *)
(* latest state), c is the closure of the render that created the handler; *)
(* the result is the state after the handler's writes.                     *)
(* Operators are written "+", "-", "*" (the label U+00D7) and "/" (the     *)
(* label U+00F7); an absent operator is "null".                            *)
(***************************************************************************)
Operators == {"+", "-", "*", "/"}

InitialState == [displayValue |-> <<"0">>, previousValue |-> Null,
                 operator |-> "null", isNewEntry |-> TRUE]

\* variant: a digit replaces the display only on a new entry
handleDigitPress_newEntryOnly(h, c, digit) ==
    IF c.isNewEntry
    THEN [h EXCEPT !.displayValue = <<digit>>, !.isNewEntry = FALSE]
    ELSE [h EXCEPT !.displayValue = Append(h.displayValue, digit)]

\* variant: a digit replaces the display only when it shows "0"
handleDigitPress_zeroOnly(h, c, digit) ==
    IF h.displayValue = <<"0">>
    THEN [h EXCEPT !.displayValue = <<digit>>, !.isNewEntry = FALSE]
    ELSE [h EXCEPT !.displayValue = Append(h.displayValue, digit), !.isNewEntry = FALSE]

handleDigitPress(h, c, digit) ==
    IF c.isNewEntry \/ h.displayValue = <<"0">>
    THEN [h EXCEPT !.displayValue = <<digit>>, !.isNewEntry = FALSE]
    ELSE [h EXCEPT !.displayValue = Append(h.displayValue, digit)]

\* variant: the decimal point is appended whatever the entry holds
handleDotPress_alwaysAppend(h, c) ==
    [h EXCEPT !.displayValue = Append(h.displayValue, "."), !.isNewEntry = FALSE]

\* variant: the decimal point is appended without looking for one
handleDotPress_noCheck(h, c) ==
    IF c.isNewEntry
    THEN [h EXCEPT !.displayValue = <<"0", ".">>, !.isNewEntry = FALSE]
    ELSE [h EXCEPT !.displayValue = Append(h.displayValue, ".")]

handleDotPress(h, c) ==
    IF c.isNewEntry
    THEN [h EXCEPT !.displayValue = <<"0", ".">>, !.isNewEntry = FALSE]
    ELSE IF includes(h.displayValue, ".") THEN h
    ELSE [h EXCEPT !.displayValue = Append(h.displayValue, ".")]

\* variant: the zero test of the division looks at the dividend
performCalculation_zeroDividend(op, a, b) ==
    CASE op = "+" -> Add(a, b)
      [] op = "-" -> Add(a, Neg(b))
      [] op = "*" -> Mul(a, b)
      [] op = "/" -> IF IsZero(a) THEN NaN ELSE Div(a, b)
      [] OTHER -> b

\* variant: the division is not guarded against a zero divisor
performCalculation_unguarded(op, a, b) ==
    CASE op = "+" -> Add(a, b)
      [] op = "-" -> Add(a, Neg(b))
      [] op = "*" -> Mul(a, b)
      [] op = "/" -> Div(a, b)
      [] OTHER -> b

performCalculation(op, a, b) ==
    CASE op = "+" -> Add(a, b)
      [] op = "-" -> Add(a, Neg(b))
      [] op = "*" -> Mul(a, b)
      [] op = "/" -> IF IsZero(b) THEN NaN ELSE Div(a, b)
      [] OTHER -> b

\* Number.isNaN(result) ? "Error" : result.toString()
resultText(result) == IF IsNaN(result) THEN Error ELSE toString(result)

\* variant: an evaluating operator press leaves the entry open
handleOperatorPress_keepsEntryOpen(h, c, nextOperator) ==
    LET current == parseFloat(c.displayValue)
        result == performCalculation(c.operator, c.previousValue, current)
    IN  IF c.previousValue # Null /\ c.operator # "null" /\ ~c.isNewEntry
        THEN [h EXCEPT !.previousValue = result,
                       !.displayValue = resultText(result),
                       !.operator = nextOperator]
        ELSE [h EXCEPT !.previousValue = current,
                       !.operator = nextOperator,
                       !.isNewEntry = TRUE]

\* variant: an operator press evaluates whenever an operation is pending
handleOperatorPress_alwaysEval(h, c, nextOperator) ==
    LET current == parseFloat(c.displayValue)
        result == performCalculation(c.operator, c.previousValue, current)
    IN  IF c.previousValue # Null /\ c.operator # "null"
        THEN [h EXCEPT !.previousValue = result,
                       !.displayValue = resultText(result),
                       !.operator = nextOperator,
                       !.isNewEntry = TRUE]
        ELSE [h EXCEPT !.previousValue = current,
                       !.operator = nextOperator,
                       !.isNewEntry = TRUE]

\* variant: an operator press never evaluates the pending operation
handleOperatorPress_noEval(h, c, nextOperator) ==
    [h EXCEPT !.previousValue = parseFloat(c.displayValue),
              !.operator = nextOperator,
              !.isNewEntry = TRUE]

handleOperatorPress(h, c, nextOperator) ==
    LET current == parseFloat(c.displayValue)
        result == performCalculation(c.operator, c.previousValue, current)
    IN  IF c.previousValue # Null /\ c.operator # "null" /\ ~c.isNewEntry
        THEN [h EXCEPT !.previousValue = result,
                       !.displayValue = resultText(result),
                       !.operator = nextOperator,
                       !.isNewEntry = TRUE]
        ELSE [h EXCEPT !.previousValue = current,
                       !.operator = nextOperator,
                       !.isNewEntry = TRUE]

\* variant: Equals waits for a second operand
handleEqualsPress_needsOperand(h, c) ==
    IF c.operator = "null" \/ c.previousValue = Null \/ c.isNewEntry THEN h
    ELSE LET current == parseFloat(c.displayValue)
             result == performCalculation(c.operator, c.previousValue, current)
         IN  [h EXCEPT !.displayValue = resultText(result),
                       !.previousValue = Null,
                       !.operator = "null",
                       !.isNewEntry = TRUE]

\* variant: Equals with nothing pending still ends the entry
handleEqualsPress_endsEntry(h, c) ==
    IF c.operator = "null" \/ c.previousValue = Null
    THEN [h EXCEPT !.isNewEntry = TRUE]
    ELSE LET current == parseFloat(c.displayValue)
             result == performCalculation(c.operator, c.previousValue, current)
         IN  [h EXCEPT !.displayValue = resultText(result),
                       !.previousValue = Null,
                       !.operator = "null",
                       !.isNewEntry = TRUE]

\* variant: Equals leaves the operator pending
handleEqualsPress_keepsOperator(h, c) ==
    IF c.operator = "null" \/ c.previousValue = Null THEN h
    ELSE LET current == parseFloat(c.displayValue)
             result == performCalculation(c.operator, c.previousValue, current)
         IN  [h EXCEPT !.displayValue = resultText(result),
                       !.previousValue = Null,
                       !.isNewEntry = TRUE]

handleEqualsPress(h, c) ==
    IF c.operator = "null" \/ c.previousValue = Null THEN h
    ELSE LET current == parseFloat(c.displayValue)
             result == performCalculation(c.operator, c.previousValue, current)
         IN  [h EXCEPT !.displayValue = resultText(result),
                       !.previousValue = Null,
                       !.operator = "null",
                       !.isNewEntry = TRUE]

\* variant: Clear leaves the entry mode as it is
handleClearPress_keepsEntry(h) ==
    [h EXCEPT !.displayValue = <<"0">>, !.previousValue = Null, !.operator = "null"]

handleClearPress(h) ==
    [h EXCEPT !.displayValue = <<"0">>, !.previousValue = Null,
              !.operator = "null", !.isNewEntry = TRUE]

\* variant: the first character is dropped whatever it is
handleToggleSignPress_alwaysSlice(h) ==
    IF h.displayValue = <<"0">> \/ h.displayValue = Error THEN h
    ELSE [h EXCEPT !.displayValue = slice1(h.displayValue)]

\* variant: the sign is always prepended
handleToggleSignPress_alwaysPrepend(h) ==
    IF h.displayValue = <<"0">> \/ h.displayValue = Error THEN h
    ELSE [h EXCEPT !.displayValue = <<"-">> \o h.displayValue]

handleToggleSignPress(h) ==
    IF h.displayValue = <<"0">> \/ h.displayValue = Error THEN h
    ELSE IF startsWith(h.displayValue, "-")
         THEN [h EXCEPT !.displayValue = slice1(h.displayValue)]
    ELSE [h EXCEPT !.displayValue = <<"-">> \o h.displayValue]

\* variant: Percent does not test its operand for NaN
handlePercentPress_noNaNCheck(h) ==
    [h EXCEPT !.displayValue = toString(Div(parseFloat(h.displayValue), Hundred))]

\* variant: Percent multiplies by 100
handlePercentPress_times100(h) ==
    LET value == parseFloat(h.displayValue)
        result == Mul(value, Hundred)
    IN  IF IsNaN(value) THEN h
        ELSE [h EXCEPT !.displayValue = toString(result)]

\* variant: Percent takes the percentage of the pending operand
handlePercentPress_ofOperand(h) ==
    LET value == parseFloat(h.displayValue)
        result == IF h.previousValue = Null THEN Div(value, Hundred)
                  ELSE Div(Mul(h.previousValue, value), Hundred)
    IN  IF IsNaN(value) THEN h
        ELSE [h EXCEPT !.displayValue = toString(result)]

handlePercentPress(h) ==
    LET value == parseFloat(h.displayValue)
        result == Div(value, Hundred)
    IN  IF IsNaN(value) THEN h
        ELSE [h EXCEPT !.displayValue = toString(result)]

handleButtonPress(h, c, label) ==
    IF IsDigit(label) THEN handleDigitPress(h, c, label)
    ELSE CASE label = "." -> handleDotPress(h, c)
           [] label = "AC" -> handleClearPress(h)
           [] label = "+/-" -> handleToggleSignPress(h)
           [] label = "%" -> handlePercentPress(h)
           [] label \in {"+", "-", "*", "/"} -> handleOperatorPress(h, c, label)
           [] label = "=" -> handleEqualsPress(h, c)
           [] OTHER -> h

\* variant: the keypad labels multiplication with the letter x
buttonRows_letterTimes ==
    << <<"AC", "+/-", "%", "/">>,
       <<"7", "8", "9", "x">>,
       <<"4", "5", "6", "-">>,
       <<"1", "2", "3", "+">>,
       <<"0", ".", "=">> >>

\* the keypad, row by row ("/" stands for the division sign, "*" for the
\* multiplication sign)
buttonRows ==
    << <<"AC", "+/-", "%", "/">>,
       <<"7", "8", "9", "*">>,
       <<"4", "5", "6", "-">>,
       <<"1", "2", "3", "+">>,
       <<"0", ".", "=">> >>

\* the branch of handleButtonPress a label takes
branchOf(label) ==
    IF IsDigit(label) THEN "handleDigitPress"
    ELSE CASE label = "." -> "handleDotPress"
           [] label = "AC" -> "handleClearPress"
           [] label = "+/-" -> "handleToggleSignPress"
           [] label = "%" -> "handlePercentPress"
           [] label \in {"+", "-", "*", "/"} -> "handleOperatorPress"
           [] label = "=" -> "handleEqualsPress"
           [] OTHER -> "default"

\* variant: the handlers keep the isNewEntry of the first render
Render_stale(h) == [h EXCEPT !.isNewEntry = TRUE]

\* The render that follows the writes of a press: the handlers of the next
\* press close over the values useState returns then.
Render(h) == h

\* The pure reducer: a press on a component whose last render shows S.
apply(S, label) == handleButtonPress(S, Render(S), label)

(***************************************************************************)
(* Which evaluations the model covers.  The arithmetic above is exact on   *)
(* decimals, the code's is IEEE-754 binary64; Exact(op, a, b) states       *)
(* conditions under which the two agree:                                   *)
(*  - an operand is NaN, an infinity or zero;                              *)
(*  - both operands are binary fractions (doubles equal to their decimal), *)
(*    so that the correctly rounded result is the double nearest to the    *)
(*    exact one and prints as it when it has at most 15 digits;            *)
(*  - a product or quotient lies beyond the double range by more than the  *)
(*    rounding of its operands can move it;                                *)
(*  - the evaluation is one of IEEEFacts, computed in binary64.            *)
(***************************************************************************)
Dyadic(v) ==
    /\ v.k = "fin"
    /\ \/ v.m = 0
       \/ v.e >= 0 /\ v.e <= 9 /\ v.m < 1000000
       \/ v.e < 0 /\ v.e >= -9 /\ v.m % Pow5(-v.e) = 0

\* position of the leading digit: 10^(Magn(v)-1) <= |v| < 10^Magn(v)
Magn(v) == v.e + NumDigits(v.m)

IEEEFacts ==
    { <<"/", Fin(1, 1, -2), Hundred>>,       \* 0.01 / 100 = 0.0001
      <<"/", Fin(1, 1, -4), Hundred>>,       \* 0.0001 / 100 = 0.000001
      <<"/", Fin(1, 1, -6), Hundred>>,       \* 0.000001 / 100 = 1e-8
      <<"/", Fin(1, 1, 0), Fin(1, 1, -89)>>, \* 1 / 1e-89 = 1e+89
      <<"*", Fin(1, 1, 89), Fin(1, 1, 89)>>  \* 1e+89 * 1e+89 = 1e+178
    }

Exact(op, a, b) ==
    LET r == performCalculation(op, a, b)
    IN  \/ a.k \in {"nan", "inf"} \/ b.k \in {"nan", "inf"}
        \/ IsZero(a) \/ IsZero(b)
        \/ <<op, a, b>> \in IEEEFacts
        \/ /\ op = "*" /\ a.k = "fin" /\ b.k = "fin"
           /\ (Magn(a) + Magn(b) - 2 >= 311 \/ Magn(a) + Magn(b) <= -330)
        \/ /\ op = "/" /\ a.k = "fin" /\ b.k = "fin"
           /\ (Magn(a) - Magn(b) - 1 >= 311 \/ Magn(a) - Magn(b) + 1 <= -330)
        \/ /\ Dyadic(a) /\ Dyadic(b)
           /\ r.k = "fin" /\ r.m <= MaxMant /\ r.e <= MaxPow

InModel(op, a, b) == performCalculation(op, a, b).k # "beyond" /\ Exact(op, a, b)

\* the arithmetic of the press is covered by the model
Modelled(h, c, label) ==
    CASE label \in Operators \cup {"="} ->
           /\ Operable(parseFloat(c.displayValue))
           /\ (c.previousValue # Null /\ c.operator # "null" /\ (label = "=" \/ ~c.isNewEntry))
                 => InModel(c.operator, c.previousValue, parseFloat(c.displayValue))
      [] label = "%" ->
           \/ IsNaN(parseFloat(h.displayValue))
           \/ InModel("/", parseFloat(h.displayValue), Hundred)
      [] OTHER -> TRUE

\* a freely explored press keeps the typed text within the bounds
Typable(h, c, label) ==
    CASE IsDigit(label) ->
           /\ DigitVal(label) <= MaxDigit
           /\ (c.isNewEntry \/ h.displayValue = <<"0">> \/ Len(h.displayValue) < MaxLen)
      [] label = "." ->
           c.isNewEntry \/ includes(h.displayValue, ".") \/ Len(h.displayValue) < MaxLen
      [] OTHER -> TRUE

(***************************************************************************)
(* The state machine.  script holds presses the user makes first (they are *)
(* not subject to Typable); once it is empty every button may be pressed.  *)
(* pressed is the label of the last press.                                 *)
(***************************************************************************)
Prefixes(q) == {SubSeq(q, 1, n) : n \in 0..Len(q)}

\* 1 / 1e-89 = 1e+89, squared twice: Infinity
OverflowScript == <<"1", "/", "1", "%", "%", "%", "%", "9", "=", "*", "=", "*", "=">>

\* a decimal point typed after an exponent form
ExponentDotScript == <<"1", "%", "%", "%", "%", ".", ".">>

\* the chained evaluation 3 + 4 + 2 =
ChainScript == <<"3", "+", "4", "+", "2", "=">>

\* the division 5 / 0 =
DivideByZeroScript == <<"5", "/", "0", "=">>

Scripts ==
    Prefixes(OverflowScript) \cup Prefixes(ExponentDotScript)
        \cup Prefixes(ChainScript) \cup Prefixes(DivideByZeroScript)

Init ==
    /\ displayValue = InitialState.displayValue
    /\ previousValue = InitialState.previousValue
    /\ operator = InitialState.operator
    /\ isNewEntry = InitialState.isNewEntry
    /\ rendered = Render(InitialState)
    /\ pressed = ""
    /\ script \in Scripts

Press(label) ==
    /\ IF script # <<>> THEN label = Head(script) ELSE Typable(hooks, rendered, label)
    /\ Modelled(hooks, rendered, label)
    /\ LET h2 == handleButtonPress(hooks, rendered, label)
       IN  /\ displayValue' = h2.displayValue
           /\ previousValue' = h2.previousValue
           /\ operator' = h2.operator
           /\ isNewEntry' = h2.isNewEntry
           /\ rendered' = Render(h2)
    /\ pressed' = label
    /\ script' = IF script = <<>> THEN <<>> ELSE Tail(script)

Digit == \E i \in 1..10 : Press(DigitChars[i])

Dot == Press(".")

Operator == \E op \in Operators : Press(op)

Equals == Press("=")

Clear == Press("AC")

ToggleSign == Press("+/-")

Percent == Press("%")

Next == Digit \/ Dot \/ Operator \/ Equals \/ Clear \/ ToggleSign \/ Percent

Spec == Init /\ [][Next]_vars

(***************************************************************************)
(* Properties.                                                             *)
(***************************************************************************)
Digits == {DigitChars[i] : i \in 1..10}

RECURSIVE Run(_, _)
\* the state after pressing the labels of q in turn, starting from S
Run(S, q) == IF q = <<>> THEN S ELSE Run(apply(S, Head(q)), Tail(q))

Pending(S) == S.previousValue # Null /\ S.operator # "null"

\* the arithmetic of pressing label in state S is covered by the model
Covered(S, label) == Modelled(S, Render(S), label)

\* C1: chained operations evaluate left to right: with an operation pending
\* and a second operand entered, an Operator press shows and stores
\* evaluate(op1, a, b) and makes the new operator pending, and a further
\* operand c and Equals show evaluate(op2, evaluate(op1, a, b), c);
\* 3 + 4 + 2 = shows "9".
C1_ChainedLeftToRight ==
    /\ Run(InitialState, ChainScript).displayValue = <<"9">>
    /\ (Pending(hooks) /\ ~isNewEntry) =>
         \A op2 \in Operators : Covered(hooks, op2) =>
            LET r1 == performCalculation(operator, previousValue, parseFloat(displayValue))
                T == apply(hooks, op2)
            IN  /\ T.previousValue = r1
                /\ T.displayValue = resultText(r1)
                /\ T.operator = op2
                /\ T.isNewEntry
                /\ \A c \in Digits :
                     LET U == apply(T, c)
                     IN  Covered(U, "=") =>
                           apply(U, "=").displayValue =
                             resultText(performCalculation(op2, r1, parseFloat(<<c>>)))

\* 3 + 4 + has been pressed: the second Operator press evaluated 3 + 4
C1_Witness ==
    /\ script = <<"2", "=">>
    /\ pressed = "+"
    /\ displayValue = <<"7">>
    /\ previousValue = Fin(1, 7, 0)
    /\ operator = "+"
    /\ isNewEntry

\* C2: with Divide pending and a displayed operand that parses to zero,
\* Equals shows "Error", and so does an Operator press when isNewEntry is
\* false; 5 / 0 = shows "Error".
C2_DivideByZeroError ==
    /\ Run(InitialState, DivideByZeroScript).displayValue = Error
    /\ (Pending(hooks) /\ operator = "/" /\ IsZero(parseFloat(displayValue))) =>
         /\ apply(hooks, "=").displayValue = Error
         /\ ~isNewEntry => \A op \in Operators : apply(hooks, op).displayValue = Error

\* 5 / 0 has been entered and Equals is about to show "Error"
C2_Witness ==
    /\ script = <<"=">>
    /\ pressed = "0"
    /\ operator = "/"
    /\ previousValue = Fin(1, 5, 0)
    /\ displayValue = <<"0">>
    /\ ~isNewEntry
    /\ apply(hooks, "=").displayValue = Error

\* C3: Clear is a total reset: from every reachable state it yields the
\* state created at mount.
C3_ClearResets ==
    /\ apply(hooks, "AC") = InitialState
    /\ pressed = "AC" => hooks = InitialState

\* Clear has been pressed
C3_Witness == pressed = "AC" /\ hooks = InitialState /\ script = <<>>

Evaluates(label) ==
    /\ label \in Operators \cup {"="}
    /\ Pending(hooks)
    /\ label = "=" \/ ~isNewEntry

\* C5 as stated: displayValue becomes "Error" only in an Operator or Equals
\* step whose evaluation divided by a zero operand or had a not-a-number
\* operand.
C5_Original ==
    [][ (displayValue' = Error /\ displayValue # Error) =>
          /\ Evaluates(pressed')
          /\ \/ operator = "/" /\ IsZero(parseFloat(displayValue))
             \/ IsNaN(previousValue)
             \/ IsNaN(parseFloat(displayValue)) ]_vars

\* C5: displayValue becomes "Error" only in an Operator or Equals step whose
\* evaluation divided by a zero operand, had a not-a-number operand, or had
\* an infinite operand (Infinity - Infinity, Infinity * 0, Infinity /
\* Infinity); no other step and no evaluation over two finite numbers with a
\* non-zero divisor turns another display into "Error".
C5_ErrorOnlyFromEvaluation ==
    [][ (displayValue' = Error /\ displayValue # Error) =>
          /\ Evaluates(pressed')
          /\ \/ operator = "/" /\ IsZero(parseFloat(displayValue))
             \/ IsNaN(previousValue)
             \/ IsNaN(parseFloat(displayValue))
             \/ previousValue.k = "inf"
             \/ parseFloat(displayValue).k = "inf" ]_vars

\* Infinity - has been pressed after an overflow: Equals evaluates
\* Infinity - Infinity and shows "Error"
C5_Witness ==
    /\ pressed = "-"
    /\ previousValue = Inf(1)
    /\ operator = "-"
    /\ displayValue = Infinity
    /\ apply(hooks, "=").displayValue = Error

C7_OperatorIffPrevious ==
    /\ (operator = "null") <=> (previousValue = Null)
    /\ \A op \in Operators :
         apply(hooks, op).operator = op /\ apply(hooks, op).previousValue # Null
    /\ Pending(hooks) =>
         apply(hooks, "=").operator = "null" /\ apply(hooks, "=").previousValue = Null
    /\ apply(hooks, "AC").operator = "null" /\ apply(hooks, "AC").previousValue = Null
    /\ \A label \in Digits \cup {".", "+/-", "%"} :
         /\ apply(hooks, label).operator = operator
         /\ apply(hooks, label).previousValue = previousValue

\* Equals has finished the pending operation of 3 + 4 + 2
C7_Witness ==
    /\ pressed = "="
    /\ displayValue = <<"9">>
    /\ operator = "null"
    /\ previousValue = Null
    /\ script = <<>>

\* C8: displayValue holds at most one decimal point.
C8_OneDecimalPoint ==
    Cardinality({i \in 1..Len(displayValue) : displayValue[i] = "."}) <= 1

\* Dot pressed twice on the exponent form four Percent presses left
C8_Witness ==
    /\ pressed = "."
    /\ displayValue = <<"1", "e", "-", "8", ".">>
    /\ script = <<>>

\* C9: a second operator press only changes the pending operator: pressing
\* op1 and then op2 gives the state that pressing op2 alone gives, and the
\* second press changes neither displayValue nor previousValue.
C9_RepeatedOperator ==
    \A op1 \in Operators, op2 \in Operators :
      Covered(hooks, op1) =>
        LET T == apply(hooks, op1)
            U == apply(T, op2)
        IN  /\ U = apply(hooks, op2)
            /\ U.displayValue = T.displayValue
            /\ U.previousValue = T.previousValue

\* an Operator press has evaluated a pending operation; another one now
\* only replaces the operator
C9_Witness ==
    /\ pressed \in Operators
    /\ script = <<"2", "=">>
    /\ displayValue = <<"7">>
    /\ apply(hooks, "/") = [hooks EXCEPT !.operator = "/"]

\* C10: on a display that is neither "0" nor "Error", ToggleSign adds or
\* removes one leading "-", and a second ToggleSign restores the display.
C10_ToggleSignRoundTrip ==
    (displayValue # <<"0">> /\ displayValue # Error) =>
      LET T == apply(hooks, "+/-")
      IN  /\ \/ T.displayValue = <<"-">> \o displayValue
             \/ displayValue = <<"-">> \o T.displayValue
          /\ apply(T, "+/-").displayValue = displayValue

\* ToggleSign has put a sign on "0."
C10_Witness ==
    /\ pressed = "+/-"
    /\ displayValue = <<"-", "0", ".">>
    /\ ~isNewEntry

\* C11: Dot is idempotent: a second Dot press leaves all four fields as the
\* first one left them; "0." stays "0.".
C11_DotIdempotent ==
    /\ Run(InitialState, <<".", ".">>).displayValue = <<"0", ".">>
    /\ apply(apply(hooks, "."), ".") = apply(hooks, ".")

\* Dot has opened a new entry
C11_Witness ==
    /\ pressed = "."
    /\ displayValue = <<"0", ".">>
    /\ ~isNewEntry
    /\ Pending(hooks)

\* C12: Equals with no operator or no previousValue pending leaves all four
\* fields unchanged, isNewEntry included.
C12_EqualsNoop ==
    (operator = "null" \/ previousValue = Null) => apply(hooks, "=") = hooks

\* Equals has been pressed on a typed entry with nothing pending: the entry
\* is still open
C12_Witness ==
    /\ pressed = "="
    /\ operator = "null"
    /\ previousValue = Null
    /\ ~isNewEntry
    /\ displayValue # <<"0">>

RECURSIVE DropZeros(_)
\* a digit string without its leading zeros; a string of zeros gives "0"
DropZeros(q) == IF Len(q) > 1 /\ q[1] = "0" THEN DropZeros(Tail(q)) ELSE q

\* the digits a freely explored press types
TypedDigits == {DigitChars[i + 1] : i \in 0..MaxDigit}

\* the non-empty digit sequences of at most n presses
DigitSeqs(n) == UNION {[1..k -> TypedDigits] : k \in 1..n}

AllDigits(str) == \A i \in 1..Len(str) : IsDigit(str[i])

\* C13: digits typed in a row on a new entry show their concatenation
\* without its leading zeros (only zeros give "0"): 5 2 gives "52" and
\* 0 0 7 gives "7"; each further digit extends the number the same way.
C13_DigitConcatenation ==
    /\ Run(InitialState, <<"5", "2">>).displayValue = <<"5", "2">>
    /\ Run(InitialState, <<"0", "0", "7">>).displayValue = <<"7">>
    /\ isNewEntry =>
         \A q \in DigitSeqs(MaxLen) :
            /\ Run(hooks, q).displayValue = DropZeros(q)
            /\ ~Run(hooks, q).isNewEntry
    /\ (~isNewEntry /\ AllDigits(displayValue) /\ displayValue = DropZeros(displayValue)) =>
         \A d \in Digits :
            apply(hooks, d).displayValue = DropZeros(Append(displayValue, d))

\* 0 1 2 has been typed as the second operand of a pending operation
C13_Witness ==
    /\ pressed = "2"
    /\ displayValue = <<"1", "2">>
    /\ ~isNewEntry
    /\ Pending(hooks)
    /\ script = <<>>

\* C14: Percent replaces the display with the string of its number divided
\* by 100 (a string that reads back as that quotient) whenever the display
\* parses to a number, and changes nothing when it does not, which is the
\* case of the display "Error" only; 5 0 % shows "0.5".
C14_PercentScales ==
    /\ Run(InitialState, <<"5", "0", "%">>).displayValue = <<"0", ".", "5">>
    /\ Covered(hooks, "%") =>
         LET value == parseFloat(displayValue)
             T == apply(hooks, "%")
         IN  IF IsNaN(value)
             THEN T = hooks /\ displayValue = Error
             ELSE /\ T.displayValue = toString(Div(value, Hundred))
                  /\ parseFloat(T.displayValue) = Div(value, Hundred)

\* Percent has been pressed on a typed 1
C14_Witness ==
    /\ pressed = "%"
    /\ displayValue = <<"0", ".", "0", "1">>
    /\ ~isNewEntry
    /\ ~Pending(hooks)

\* C15: Percent leaves previousValue, operator and isNewEntry unchanged,
\* and with an operation pending the display it gives is the one it gives
\* with nothing pending: previousValue plays no part.
C15_PercentFrame ==
    LET T == apply(hooks, "%")
        alone == [hooks EXCEPT !.previousValue = Null, !.operator = "null"]
    IN  /\ T.previousValue = previousValue
        /\ T.operator = operator
        /\ T.isNewEntry = isNewEntry
        /\ T.displayValue = apply(alone, "%").displayValue

\* 2 + % has been pressed: the display is 2 / 100, the operation is still
\* pending and the entry still new
C15_Witness ==
    /\ pressed = "%"
    /\ previousValue = Fin(1, 2, 0)
    /\ operator = "+"
    /\ isNewEntry
    /\ displayValue = <<"0", ".", "0", "2">>

\* the text after an optional leading "-"
Unsigned(str) == IF startsWith(str, "-") THEN slice1(str) ELSE str

\* str from position i on is empty, or a "." and digits
IsPointTail(str, i) ==
    i > Len(str) \/ (str[i] = "." /\ i + DigitRun(str, i + 1) = Len(str))

\* digits, optionally a point and more digits
IsPlainNumeral(b) ==
    LET ni == DigitRun(b, 1)
    IN  ni >= 1 /\ IsPointTail(b, ni + 1)

\* the exponent form of Number's toString (d[.ddd]e+dd, d[.ddd]e-dd), with
\* the digits and the point typed after it
IsExponentNumeral(b) ==
    LET hasDot == Len(b) >= 2 /\ b[2] = "."
        nf == IF hasDot THEN DigitRun(b, 3) ELSE 0
        x == IF hasDot THEN 3 + nf ELSE 2
        ne == DigitRun(b, x + 2)
    IN  /\ DigitRun(b, 1) = 1
        /\ hasDot => nf >= 1
        /\ Len(b) >= x + 2
        /\ b[x] = "e"
        /\ b[x + 1] \in {"+", "-"}
        /\ ne >= 1
        /\ IsPointTail(b, x + 2 + ne)

\* "Infinity", with the digits and the point typed after it
IsInfinityNumeral(b) ==
    /\ Len(b) >= 8
    /\ SubSeq(b, 1, 8) = Infinity
    /\ IsPointTail(b, 9 + DigitRun(b, 9))

\* C16 as stated: the display is "Error" or an optional "-", digits, and
\* optionally one point followed by digits; never an exponent form or a
\* non-finite value.
C16_Original ==
    displayValue = Error \/ IsPlainNumeral(Unsigned(displayValue))

\* C16: the display is "Error" or an optional "-" followed by a plain
\* numeral, by an exponent form as the number-to-string conversion gives
\* it (with what was typed after it), or by "Infinity" (likewise); it holds
\* at most one decimal point.
C16_DisplayGrammar ==
    \/ displayValue = Error
    \/ /\ \/ IsPlainNumeral(Unsigned(displayValue))
          \/ IsExponentNumeral(Unsigned(displayValue))
          \/ IsInfinityNumeral(Unsigned(displayValue))
       /\ Cardinality({i \in 1..Len(displayValue) : displayValue[i] = "."}) <= 1

\* four Percent presses on 1 have left an exponent form
C16_Witness ==
    /\ pressed = "%"
    /\ displayValue = <<"1", "e", "-", "8">>
    /\ ~isNewEntry

\* C17: the display is never empty, and never a lone "-" that ToggleSign
\* would strip to nothing.
C17_NonEmptyDisplay ==
    /\ Len(displayValue) >= 1
    /\ Len(Unsigned(displayValue)) >= 1
    /\ Len(apply(hooks, "+/-").displayValue) >= 1

\* ToggleSign has stripped the sign of -1
C17_Witness ==
    /\ pressed = "+/-"
    /\ displayValue = <<"1">>
    /\ ~isNewEntry

\* C18: Equals with an operation pending evaluates it whether or not a
\* second operand was typed: it shows the result (or "Error"), clears
\* previousValue and operator and sets isNewEntry; a digit then starts a new
\* number, an operator takes the result as left operand, and a second Equals
\* changes nothing.
C18_EqualsFinishes ==
    (Pending(hooks) /\ Covered(hooks, "=")) =>
      LET result == performCalculation(operator, previousValue, parseFloat(displayValue))
          T == apply(hooks, "=")
      IN  /\ T = [displayValue |-> resultText(result), previousValue |-> Null,
                  operator |-> "null", isNewEntry |-> TRUE]
          /\ \A d \in Digits :
               apply(T, d).displayValue = <<d>> /\ ~apply(T, d).isNewEntry
          /\ \A op \in Operators :
               /\ apply(T, op).previousValue = result
               /\ apply(T, op).operator = op
               /\ apply(T, op).displayValue = T.displayValue
          /\ apply(T, "=") = T

\* 2 x = has been pressed: Equals multiplied 2 by the 2 still on display
C18_Witness ==
    /\ pressed = "="
    /\ displayValue = <<"4">>
    /\ previousValue = Null
    /\ operator = "null"
    /\ isNewEntry

\* the labels on the keypad
ButtonLabels == {buttonRows[r][i] : r \in 1..Len(buttonRows), i \in 1..3} \cup
                {buttonRows[r][Len(buttonRows[r])] : r \in 1..Len(buttonRows)}

\* the handler call handleButtonPress makes in the branch named
handlerCall(h, c, branch, label) ==
    CASE branch = "handleDigitPress" -> handleDigitPress(h, c, label)
      [] branch = "handleDotPress" -> handleDotPress(h, c)
      [] branch = "handleClearPress" -> handleClearPress(h)
      [] branch = "handleToggleSignPress" -> handleToggleSignPress(h)
      [] branch = "handlePercentPress" -> handlePercentPress(h)
      [] branch = "handleOperatorPress" -> handleOperatorPress(h, c, label)
      [] branch = "handleEqualsPress" -> handleEqualsPress(h, c)
      [] OTHER -> h

\* C19: every label of the keypad (AC, +/-, %, the four operators, =, .
\* and the ten digits) takes the branch of one handler of handleButtonPress
\* and none the default branch; the pending operator is one of the four
\* operators whenever there is one, so performCalculation never takes its
\* fallback branch.
C19_EveryLabelHandled ==
    /\ ButtonLabels = Digits \cup Operators \cup {"AC", "+/-", "%", "=", "."}
    /\ \A label \in ButtonLabels :
         /\ branchOf(label) # "default"
         /\ apply(hooks, label) = handlerCall(hooks, Render(hooks), branchOf(label), label)
         /\ branchOf(label) = "handleOperatorPress" => label \in Operators
    /\ pressed = "" \/ pressed \in ButtonLabels
    /\ operator \in Operators \cup {"null"}
    /\ Pending(hooks) => operator \in Operators

\* the multiplication key has evaluated a pending operation to 4
C19_Witness ==
    /\ pressed = "*"
    /\ operator = "*"
    /\ previousValue = Fin(1, 4, 0)
    /\ displayValue = <<"4">>
    /\ isNewEntry

\* C20: a display of "Error" implies isNewEntry, so a digit or Dot replaces
\* the text instead of appending to it, and ToggleSign and Percent leave the
\* state as it is.
C20_ErrorImpliesNewEntry ==
    displayValue = Error =>
      /\ isNewEntry
      /\ \A d \in Digits : apply(hooks, d).displayValue = <<d>>
      /\ apply(hooks, ".").displayValue = <<"0", ".">>
      /\ apply(hooks, "+/-") = hooks
      /\ apply(hooks, "%") = hooks

\* Equals has shown "Error"
C20_Witness ==
    /\ displayValue = Error
    /\ pressed = "="
    /\ previousValue = Null
    /\ operator = "null"
    /\ isNewEntry

====
